---------------------------- MODULE Spec2Model ----------------------------
(***************************************************************************)
(* A model of src/golf.py: the side-view golf game's physics step, its     *)
(* fast-forward oracle simulate_to_rest, and the event handlers of main(). *)
(*                                                                         *)
(* Numbers.  The program computes in floats.  The model computes in fixed  *)
(* point: a length is an integer number of 1/PX pixels, a velocity an      *)
(* integer number of 1/PX pixels per second, a direction cosine an integer *)
(* number of 1/1000, a time an integer number of milliseconds.  Products   *)
(* are divided as they are formed so that every intermediate stays below   *)
(* 2^31.  Division rounds to nearest (RDiv); int() truncates (Trunc).      *)
(***************************************************************************)
EXTENDS Integers, Sequences, FiniteSets, TLC

-----------------------------------------------------------------------------
(* Program constants (src/golf.py lines 7-32, 117) *)

W == 1000
H == 600
GRAVITY == 2000
\* AIR_DRAG = 0.0008 = AIR_DRAG_E4 / 10000
AIR_DRAG_E4 == 8
\* REST_BOUNCE = 0.25 = REST_BOUNCE_PCT / 100
REST_BOUNCE_PCT == 25
STOP_SPEED == 40
BALL_R == 12
POWER_SCALE == 10
MAX_POWER == 1800
AIM_MIN_DRAG == 6
HOLE_R == 18

\* Fixed point: units per pixel.
PX == 100

-----------------------------------------------------------------------------
(* Arithmetic *)

Abs(a) == IF a < 0 THEN -a ELSE a
Min(a, b) == IF a < b THEN a ELSE b
Max(a, b) == IF a > b THEN a ELSE b

\* int(a / b) of Python for b > 0: the quotient truncated toward zero.
Trunc(a, b) == IF a >= 0 THEN a \div b ELSE -((-a) \div b)

\* a / b rounded to the nearest integer, for b > 0: the fixed-point image of a
\* float division.
RDiv(a, b) == IF a >= 0 THEN (2 * a + b) \div (2 * b) ELSE -((2 * (-a) + b) \div (2 * b))

RECURSIVE SqrtSearch(_, _, _)
SqrtSearch(n, lo, hi) ==
    IF lo >= hi THEN lo
    ELSE LET mid == (lo + hi + 1) \div 2
         IN  IF mid * mid <= n THEN SqrtSearch(n, mid, hi) ELSE SqrtSearch(n, lo, mid - 1)

\* math.sqrt, floored: the largest s with s * s <= n, for 0 <= n < 2^31.
ISqrt(n) == SqrtSearch(n, 0, 46340)

-----------------------------------------------------------------------------
(* Level data (src/golf.py lines 36-115).  Rectangles are <<x, y, w, h>> in  *)
(* pixels; a gator's period is in milliseconds and its phase in hundredths   *)
(* of a period.                                                              *)

Gator(x, y, w, h, period, phase, open_px) ==
    [x |-> x, y |-> y, w |-> w, h |-> h, period |-> period, phase |-> phase, open_px |-> open_px]

SwampGap ==
    [platforms |-> << <<0, H - 60, 370, 60>>, <<630, H - 60, 370, 60>>, <<260, H - 200, 120, 18>>,
                      <<720, H - 220, 160, 18>>, <<480, H - 120, 40, 60>> >>,
     gators |-> << Gator(420, H - 80, 160, 40, 2200, 0, 26) >>,
     start |-> <<100, H - 90>>,
     hole_x |-> 860]

TwinGators ==
    [platforms |-> << <<0, H - 60, W, 60>>, <<300, H - 180, 160, 18>>, <<540, H - 240, 140, 18>>,
                      <<780, H - 160, 120, 18>> >>,
     gators |-> << Gator(220, H - 100, 120, 40, 1600, 0, 24), Gator(560, H - 100, 120, 40, 1900, 70, 24) >>,
     start |-> <<80, H - 90>>,
     hole_x |-> 820]

WarmUp ==
    [platforms |-> << <<0, H - 60, W, 60>>, <<260, H - 180, 160, 20>>, <<540, H - 260, 140, 20>>,
                      <<760, H - 120, 120, 20>>, <<420, H - 120, 40, 100>> >>,
     gators |-> << >>,
     start |-> <<80, H - 90>>,
     hole_x |-> 820]

LEVELS == << WarmUp, SwampGap, TwinGators, SwampGap, TwinGators >>

-----------------------------------------------------------------------------
(* Ball and pygame.Rect *)

\* Ball(x, y) of the dataclass: velocity 0.0, on_ground False.  x, y in pixels.
Ball(x, y) == [x |-> x * PX, y |-> y * PX, vx |-> 0, vy |-> 0, on_ground |-> FALSE]

Rect(x, y, w, h) == [left |-> x, top |-> y, right |-> x + w, bottom |-> y + h]

\* Ball.rect(): pygame.Rect(int(x - BALL_R), int(y - BALL_R), 2*BALL_R, 2*BALL_R)
BallRect(b) ==
    Rect(Trunc(b.x - BALL_R * PX, PX), Trunc(b.y - BALL_R * PX, PX), 2 * BALL_R, 2 * BALL_R)

\* pygame's Rect.colliderect: the interiors meet (touching edges do not collide).
colliderect(r, o) ==
    /\ r.left < o.right /\ o.left < r.right
    /\ r.top < o.bottom /\ o.top < r.bottom

\* pygame's Rect.collidepoint: left <= px < right and top <= py < bottom.
collidepoint(r, px, py) == r.left <= px /\ px < r.right /\ r.top <= py /\ py < r.bottom

\* speed() < s, s in pixels per second (the squares fit once both components do).
SpeedBelow(b, s) ==
    /\ Abs(b.vx) < s * PX /\ Abs(b.vy) < s * PX
    /\ b.vx * b.vx + b.vy * b.vy < (s * PX) * (s * PX)

\* Ball.speed() in tenths of a pixel per second.
Speed10(b) == ISqrt(Trunc(b.vx, PX \div 10) * Trunc(b.vx, PX \div 10)
                    + Trunc(b.vy, PX \div 10) * Trunc(b.vy, PX \div 10))

\* circle_rect_overlap(cx, cy, r, rect): nearest point of the rectangle within r.
circle_rect_overlap(cx, cy, r, rect) ==
    LET qx == Max(rect.left * PX, Min(cx, rect.right * PX))
        qy == Max(rect.top * PX, Min(cy, rect.bottom * PX))
        dx == cx - qx
        dy == cy - qy
    IN  /\ Abs(dx) <= r * PX /\ Abs(dy) <= r * PX
        /\ dx * dx + dy * dy <= (r * PX) * (r * PX)

\* The velocity and position after a contact with unit normal (nx, ny)/1000 at
\* distance d10/10 units: push out by the overlap, reflect the normal velocity
\* with restitution, and on an upward-facing normal set on_ground.
Bounce(ball, dx, dy, d10) ==
    LET nx == RDiv(dx * 10000, d10)
        ny == RDiv(dy * 10000, d10)
        overlap10 == BALL_R * PX * 10 - d10
        vn == RDiv(ball.vx * nx + ball.vy * ny, 1000)
        vx1 == ball.vx - RDiv(RDiv(vn * nx, 1000) * (100 + REST_BOUNCE_PCT), 100)
        vy1 == ball.vy - RDiv(RDiv(vn * ny, 1000) * (100 + REST_BOUNCE_PCT), 100)
        grounded == ny < -600
    IN  [x |-> ball.x + RDiv(nx * overlap10, 10000),
         y |-> ball.y + RDiv(ny * overlap10, 10000),
         vx |-> vx1,
         vy |-> IF grounded THEN Min(vy1, 0) ELSE vy1,
         on_ground |-> ball.on_ground \/ grounded]

\* circle_rect_resolve(ball, r).  With the centre on or inside the rectangle the
\* distance is 0, d becomes 1e-6 and the normal (0/d, 0/d) is zero: nothing moves.
circle_rect_resolve(ball, r) ==
    LET qx == Max(r.left * PX, Min(ball.x, r.right * PX))
        qy == Max(r.top * PX, Min(ball.y, r.bottom * PX))
        dx == ball.x - qx
        dy == ball.y - qy
    IN  IF Abs(dx) > BALL_R * PX \/ Abs(dy) > BALL_R * PX
           \/ dx * dx + dy * dy > (BALL_R * PX) * (BALL_R * PX)
        THEN ball
        ELSE IF dx = 0 /\ dy = 0 THEN ball
        ELSE Bounce(ball, dx, dy, ISqrt((dx * dx + dy * dy) * 100))

\* integrate(ball, dt) with dt = dtn / dtd seconds.
integrate(ball, dtn, dtd) ==
    LET vy0 == ball.vy + RDiv(GRAVITY * PX * dtn, dtd)
        b0 == [ball EXCEPT !.vy = vy0]
        sp10 == Speed10(b0)
        \* (v / sp) * drag * dt = AIR_DRAG * sp * v * dt
        dragv(v) == RDiv(Trunc(Trunc(v, 10) * sp10, 1000) * AIR_DRAG_E4 * dtn, 10 * dtd)
        vx1 == IF sp10 > 0 THEN ball.vx - dragv(ball.vx) ELSE ball.vx
        vy1 == IF sp10 > 0 THEN vy0 - dragv(vy0) ELSE vy0
    IN  [ball EXCEPT !.vx = vx1, !.vy = vy1,
                     !.x = ball.x + RDiv(vx1 * dtn, dtd),
                     !.y = ball.y + RDiv(vy1 * dtn, dtd)]

\* The platform loop shared by both paths: for each rectangle in order, if it
\* collides with the ball's bounding rectangle, resolve; the bounding rectangle is
\* recomputed after each resolution.
RECURSIVE ResolvePlatforms(_, _, _)
ResolvePlatforms(ball, platforms, k) ==
    IF k > Len(platforms) THEN ball
    ELSE LET p == platforms[k]
             r == Rect(p[1], p[2], p[3], p[4])
         IN  IF colliderect(r, BallRect(ball))
             THEN ResolvePlatforms(circle_rect_resolve(ball, r), platforms, k + 1)
             ELSE ResolvePlatforms(ball, platforms, k + 1)

\* min() of a non-empty collection of integers.
SetMin(S) == CHOOSE m \in S : \A n \in S : m <= n

\* The top of the first rectangle of the list that spans x (the first of the
\* whole list when none does), instead of the minimum.
surface_y_first(platforms, x) ==
    LET over == {j \in 1..Len(platforms) :
                    platforms[j][1] <= x /\ x <= platforms[j][1] + platforms[j][3]}
    IN  IF over # {} THEN platforms[SetMin(over)][2] ELSE platforms[1][2]

\* surface_y_at_x(platforms, x).  min() of an empty sequence raises ValueError:
\* with no platform at all there is no value; every level of LEVELS has some.
surface_y_at_x(platforms, x) ==
    LET candidates == {platforms[k][2] : k \in {j \in 1..Len(platforms) :
                            platforms[j][1] <= x /\ x <= platforms[j][1] + platforms[j][3]}}
    IN  IF candidates # {} THEN SetMin(candidates)
        ELSE SetMin({platforms[k][2] : k \in 1..Len(platforms)})


-----------------------------------------------------------------------------
(* Sub-steps both paths use after the platform loop *)

\* -ln(GROUND_FRICTION) in millionths: pow(GROUND_FRICTION, dt) = exp(-L * dt).
LN_FRICTION_PPM == 198451

\* pow(GROUND_FRICTION, dt) in millionths, dt = dtn / dtd seconds (dt below 0.1):
\* 1 - L dt + (L dt)^2 / 2.
KeepPpm(dtn, dtd) ==
    LET l == RDiv(LN_FRICTION_PPM * dtn, dtd)
    IN  1000000 - l + RDiv(l * l, 2000000)

\* if on_ground and speed() > 0: vx *= keep; if abs(vy) < 10: vy = 0
Friction(b, dtn, dtd) ==
    IF b.on_ground /\ (b.vx # 0 \/ b.vy # 0)
    THEN [b EXCEPT !.vx = b.vx - RDiv(b.vx * (1000000 - KeepPpm(dtn, dtd)), 1000000),
                   !.vy = IF Abs(b.vy) < 10 * PX THEN 0 ELSE b.vy]
    ELSE b

\* The left, right and top walls: clamp the position, reverse the velocity
\* component scaled by REST_BOUNCE.  Three ifs in sequence.
ClampWalls(b) ==
    LET b1 == IF b.x < BALL_R * PX
              THEN [b EXCEPT !.x = BALL_R * PX, !.vx = -RDiv(b.vx * REST_BOUNCE_PCT, 100)]
              ELSE b
        b2 == IF b1.x > (W - BALL_R) * PX
              THEN [b1 EXCEPT !.x = (W - BALL_R) * PX, !.vx = -RDiv(b1.vx * REST_BOUNCE_PCT, 100)]
              ELSE b1
    IN  IF b2.y < BALL_R * PX
        THEN [b2 EXCEPT !.y = BALL_R * PX, !.vy = -RDiv(b2.vy * REST_BOUNCE_PCT, 100)]
        ELSE b2

\* if b.y > H + 200
FellOut(b) == b.y > (H + 200) * PX

\* The capture test: within hole_r - 2 of the hole, slower than 320, and not
\* above hy - BALL_R - 2.
Captures(b, hole_pos, hole_r) ==
    LET dx == b.x - hole_pos[1] * PX
        dy == b.y - hole_pos[2] * PX
    IN  /\ Abs(dx) <= (hole_r - 2) * PX /\ Abs(dy) <= (hole_r - 2) * PX
        /\ dx * dx + dy * dy <= ((hole_r - 2) * PX) * ((hole_r - 2) * PX)
        /\ SpeedBelow(b, 320)
        /\ b.y >= (hole_pos[2] - BALL_R - 2) * PX

\* vx = vy = 0; x, y = hole position
AtHole(b, hole_pos) ==
    [b EXCEPT !.vx = 0, !.vy = 0, !.x = hole_pos[1] * PX, !.y = hole_pos[2] * PX]

-----------------------------------------------------------------------------
(* Gators *)

\* sin(2 pi u / period) in thousandths for 0 <= u < period (milliseconds), by
\* Bhaskara's rational approximation 16 p / (5 h^2 - 4 p), p = u (h - u) on the
\* half period h; exact at 0, the quarter and the half period, within 0.002
\* elsewhere, and never above 1000 in magnitude.
HalfSin1000(u, h) ==
    LET p == (u * (h - u)) \div 100
    IN  (16000 * p) \div ((5 * h * h) \div 100 - 4 * p)
Sin1000(u, period) ==
    LET h == period \div 2
    IN  IF u <= h THEN HalfSin1000(u, h) ELSE -HalfSin1000(u - h, h)

\* Gator.open_amount(t) in thousandths, t in milliseconds:
\* 0.5 * (1 + sin((2 pi / period) * (t + phase * period)))
open_amount(g, t) ==
    (1000 + Sin1000((t + (g.phase * g.period) \div 100) % g.period, g.period)) \div 2

\* Gator.mouth_rect(t): mh = int(open_px * amt); the mouth opens upward from the
\* top edge of the body.
mouth_rect(g, t) ==
    LET mh == (g.open_px * open_amount(g, t)) \div 1000
    IN  Rect(g.x + Trunc(g.w * 15, 100), g.y - mh, Trunc(g.w * 70, 100), mh)

\* A rectangle of the mouth's maximum size hanging below the body's top edge
\* instead of standing on it.
max_mouth_below(g) ==
    Rect(g.x + Trunc(g.w * 15, 100), g.y, Trunc(g.w * 70, 100), g.open_px)

\* The oracle's static hazard rectangle: the mouth at its maximum extent.
max_mouth(g) ==
    Rect(g.x + Trunc(g.w * 15, 100), g.y - g.open_px, Trunc(g.w * 70, 100), g.open_px)

\* The oracle's hazard test: the ball overlaps some gator's maximum mouth.
OracleHazard(b, gators) ==
    \E k \in 1..Len(gators) : circle_rect_overlap(b.x, b.y, BALL_R, max_mouth(gators[k]))

\* The hazard test without the 0.6 threshold: any overlap with the current mouth.
GatorBitesAnyOpening(b, g, t) == circle_rect_overlap(b.x, b.y, BALL_R, mouth_rect(g, t))

\* The interactive hazard test at time t: some gator is open above 0.6 and its
\* current mouth overlaps the ball.
GatorBites(b, g, t) ==
    open_amount(g, t) > 600 /\ circle_rect_overlap(b.x, b.y, BALL_R, mouth_rect(g, t))
FrameHazard(b, gators, t) == \E k \in 1..Len(gators) : GatorBites(b, gators[k], t)

-----------------------------------------------------------------------------
(* simulate_to_rest: one iteration of its loop *)

\* SIM_DT = 1 / SIM_RATE seconds
SIM_RATE == 300
\* MAX_STEPS = int(8.0 / SIM_DT)
MAX_STEPS == 2400
\* settled_frames_needed = int(0.15 / SIM_DT): the float quotient is 44.99999...
settled_frames_needed == 44

\* The names bound at module level when simulate_to_rest runs.  START_POS is a
\* local of main() (load_level binds it with nonlocal), not one of them.
ModuleGlobals ==
    {"W", "H", "FPS", "GRAVITY", "AIR_DRAG", "GROUND_FRICTION", "REST_BOUNCE", "STOP_SPEED",
     "BALL_R", "POWER_SCALE", "MAX_POWER", "AIM_MIN_DRAG", "LEVELS", "HOLE_R", "FLAG_HEIGHT",
     "FLAG_LENGTH", "Ball", "Gator"}

\* `return Ball(*START_POS), False` inside simulate_to_rest: the name is looked
\* up in the function's locals (absent), then the module's globals.
DiscardOutcome == IF "START_POS" \in ModuleGlobals THEN "discarded" ELSE "NameError"

\* One pass of the loop body on the private ball b with the settle counter c.
\* status: "running" (next iteration), "captured" and "settled" (break),
\* "discarded" (return the start ball) or "NameError" (raise).
OracleBody(b, c, platforms, hole_pos, hole_r, gators, stop_speed) ==
    LET b1 == ResolvePlatforms(integrate([b EXCEPT !.on_ground = FALSE], 1, SIM_RATE), platforms, 1)
    IN  IF OracleHazard(b1, gators)
        THEN [b |-> b1, c |-> c, status |-> DiscardOutcome]
        ELSE LET b2 == ClampWalls(b1)
             IN  IF FellOut(b2)
                 THEN [b |-> b2, c |-> c, status |-> DiscardOutcome]
                 ELSE LET b3 == Friction(b2, 1, SIM_RATE)
                      IN  IF Captures(b3, hole_pos, hole_r)
                          THEN [b |-> AtHole(b3, hole_pos), c |-> c, status |-> "captured"]
                          ELSE IF b3.on_ground /\ SpeedBelow(b3, stop_speed)
                               THEN IF c + 1 >= settled_frames_needed
                                    THEN [b |-> [b3 EXCEPT !.vx = 0, !.vy = 0], c |-> c + 1,
                                          status |-> "settled"]
                                    ELSE [b |-> b3, c |-> c + 1, status |-> "running"]
                               ELSE [b |-> b3, c |-> 0, status |-> "running"]


-----------------------------------------------------------------------------
(* State *)

VARIABLES
    level_index,      \* main's level_index, 0-based
    HOLE_POS,         \* <<hx, hole_surface_y>>, set by load_level
    ball,             \* the fields of main's live ball object
    strokes, sunk, aiming, drag_start, course_complete,
    chomp_timer,      \* milliseconds
    ticks,            \* pygame.time.get_ticks() at the top of this loop iteration
    dt,               \* clock.tick(FPS) at the top of this loop iteration, milliseconds
    pc,               \* "events": in the event loop of an iteration; "oracle": inside
                      \* simulate_to_rest; "crashed": an exception left main()
    oracle,           \* the locals of the running simulate_to_rest call
    fuel,             \* oracle loop iterations the exploration may still take
    frames,           \* loop iterations completed so far
    mouse_up,         \* e.pos of the last MOUSEBUTTONUP handled
    probe             \* the argument and result of a pure function under test

vars == <<level_index, HOLE_POS, ball, strokes, sunk, aiming, drag_start, course_complete,
          chomp_timer, ticks, dt, pc, oracle, fuel, frames, mouse_up, probe>>

\* Bounds of the exploration.
MaxFrames == 2
\* Oracle loop iterations explored per run: inside the game (a call that needs
\* more is not followed further) and for the oracle on its own (a whole call).
GameFuel == 3
OracleFuel == 2401
MaxStrokes == 2

\* What load_level binds besides level_index and HOLE_POS.
PLATFORMS == LEVELS[level_index + 1].platforms
START_POS == LEVELS[level_index + 1].start
GATORS == LEVELS[level_index + 1].gators
StartBall == Ball(START_POS[1], START_POS[2])

\* load_level(i): the clamped index and the hole on the surface under hole_x.
LoadedIndex(i) == Max(0, Min(i, Len(LEVELS) - 1))
LoadedHole(i) ==
    LET data == LEVELS[LoadedIndex(i) + 1]
    IN  <<data.hole_x, surface_y_at_x(data.platforms, data.hole_x)>>

\* Ball.copy(): a new object with the same fields.  obj names the object the
\* result refers to: "priv" is the new object, "live" the caller's own.
\* (Handing back self itself instead of a new object.)
Ball_copy_aliased(self) == [obj |-> "live", fields |-> self]
Ball_copy(self) == [obj |-> "priv", fields |-> self]

OracleIdle ==
    [obj |-> "none", b |-> Ball(0, 0), i |-> 0, c |-> 0, status |-> "idle", arg |-> Ball(0, 0)]

\* The fields of the object the oracle's b names.
OracleBall == IF oracle.obj = "live" THEN ball ELSE oracle.b

-----------------------------------------------------------------------------
(* The F key: predicted, will_sink = simulate_to_rest(ball, ...) *)

\* K_f, up to the loop of simulate_to_rest: b = ball.copy(), the counters at 0.
KeyF ==
    /\ pc = "events"
    /\ LET cp == Ball_copy(ball)
       IN  oracle' = [obj |-> cp.obj, b |-> cp.fields, i |-> 0, c |-> 0, status |-> "running",
                      arg |-> ball]
    /\ pc' = "oracle"
    /\ UNCHANGED fuel
    /\ UNCHANGED <<level_index, HOLE_POS, ball, strokes, sunk, aiming, drag_start,
                   course_complete, chomp_timer, ticks, dt, frames, mouse_up, probe>>

\* A loop with no cap: while True.
LoopUnbounded(i) == TRUE
\* for _ in range(MAX_STEPS)
LoopHasNext(i) == i < MAX_STEPS

\* One iteration of the loop (or its end when range is exhausted).  The body
\* writes the object b names.
OracleStep ==
    /\ pc = "oracle"
    /\ oracle.status = "running"
    /\ fuel > 0
    /\ fuel' = fuel - 1
    /\ IF LoopHasNext(oracle.i)
       THEN LET r == OracleBody(OracleBall, oracle.c, PLATFORMS, HOLE_POS, HOLE_R, GATORS, STOP_SPEED)
            IN  /\ oracle' = [oracle EXCEPT !.b = r.b, !.c = r.c, !.status = r.status,
                                            !.i = oracle.i + 1]
                /\ ball' = IF oracle.obj = "live" THEN r.b ELSE ball
       ELSE /\ oracle' = [oracle EXCEPT !.status = "exhausted"]
            /\ ball' = ball
    /\ UNCHANGED <<level_index, HOLE_POS, strokes, sunk, aiming, drag_start, course_complete,
                   chomp_timer, ticks, dt, pc, frames, mouse_up, probe>>

\* The end of the call.  return b, sunk (after the loop or a break), then in the
\* handler ball = predicted; sunk = sunk or will_sink.  A NameError raised in
\* the body passes through the handler and main(), which has no except.
OracleReturn ==
    /\ pc = "oracle"
    /\ oracle.status \notin {"running", "idle"}
    /\ IF oracle.status = "NameError"
       THEN /\ pc' = "crashed"
            /\ UNCHANGED <<ball, sunk>>
       ELSE /\ pc' = "events"
            /\ ball' = IF oracle.status = "discarded" THEN StartBall ELSE OracleBall
            /\ sunk' = (sunk \/ oracle.status = "captured")
    /\ oracle' = OracleIdle
    /\ UNCHANGED <<level_index, HOLE_POS, strokes, aiming, drag_start, course_complete,
                   chomp_timer, ticks, dt, fuel, frames, mouse_up, probe>>


-----------------------------------------------------------------------------
(* The other key handlers *)

\* reset_ball_only(): ball = Ball(*START_POS); sunk = False; aiming = False
KeyR ==
    /\ pc = "events"
    /\ ball' = StartBall
    /\ sunk' = FALSE
    /\ aiming' = FALSE
    /\ UNCHANGED <<level_index, HOLE_POS, strokes, drag_start, course_complete, chomp_timer,
                   ticks, dt, pc, oracle, fuel, frames, mouse_up, probe>>

\* load_level(i) followed by ball = Ball(*START_POS); strokes = 0; sunk = False;
\* aiming = False, as next_level and prev_level do.
EnterLevel(i) ==
    /\ level_index' = LoadedIndex(i)
    /\ HOLE_POS' = LoadedHole(i)
    /\ ball' = LET start == LEVELS[LoadedIndex(i) + 1].start IN Ball(start[1], start[2])
    /\ strokes' = 0
    /\ sunk' = FALSE
    /\ aiming' = FALSE

\* next_level()
next_level ==
    IF level_index < Len(LEVELS) - 1
    THEN EnterLevel(level_index + 1) /\ UNCHANGED course_complete
    ELSE course_complete' = TRUE
         /\ UNCHANGED <<level_index, HOLE_POS, ball, strokes, sunk, aiming>>

\* prev_level()
prev_level ==
    IF level_index > 0
    THEN EnterLevel(level_index - 1)
    ELSE UNCHANGED <<level_index, HOLE_POS, ball, strokes, sunk, aiming>>

KeyN ==
    /\ pc = "events"
    /\ next_level
    /\ UNCHANGED <<drag_start, chomp_timer, ticks, dt, pc, oracle, fuel, frames, mouse_up, probe>>

KeyP ==
    /\ pc = "events"
    /\ prev_level
    /\ UNCHANGED <<course_complete, drag_start, chomp_timer, ticks, dt, pc, oracle, fuel,
                   frames, mouse_up, probe>>

\* K_RETURN and sunk and not course_complete
KeyReturn ==
    /\ pc = "events"
    /\ sunk /\ ~course_complete
    /\ next_level
    /\ UNCHANGED <<drag_start, chomp_timer, ticks, dt, pc, oracle, fuel, frames, mouse_up, probe>>

-----------------------------------------------------------------------------
(* The mouse handlers *)

\* Where the button goes down relative to the ball's centre, and how far the
\* pointer is dragged before release (pixels).
PressOffsets == { <<0, 0>>, <<40, 0>> }
Drags == { <<0, 0>>, <<3, 4>>, <<-30, 40>>, <<-120, -160>> }

\* MOUSEBUTTONDOWN and e.button == 1 and not sunk and not course_complete
MouseDownGuard == ~sunk /\ ~course_complete

MouseDown ==
    /\ pc = "events"
    /\ MouseDownGuard
    /\ \E off \in PressOffsets :
         LET mx == Trunc(ball.x, PX) + off[1]
             my == Trunc(ball.y, PX) + off[2]
         IN  IF SpeedBelow(ball, STOP_SPEED) /\ collidepoint(BallRect(ball), mx, my)
             THEN aiming' = TRUE /\ drag_start' = <<mx, my>>
             ELSE UNCHANGED <<aiming, drag_start>>
    /\ UNCHANGED <<level_index, HOLE_POS, ball, strokes, sunk, course_complete, chomp_timer,
                   ticks, dt, pc, oracle, fuel, frames, mouse_up, probe>>

\* math.hypot(dx, dy) for integer dx, dy, in 1/PX pixels.
Hypot(dx, dy) == ISqrt((dx * dx + dy * dy) * PX * PX)

\* power = min(MAX_POWER, math.hypot(dx, dy) * POWER_SCALE), in 1/PX pixels per second
Power(dx, dy) == Min(MAX_POWER * PX, Hypot(dx, dy) * POWER_SCALE)

\* if power > AIM_MIN_DRAG
ShotApplied(dx, dy) == Power(dx, dy) > AIM_MIN_DRAG * PX

\* ang = atan2(dy, dx); vx = -cos(ang) * power; vy = -sin(ang) * power:
\* cos(ang) = dx / hypot, sin(ang) = dy / hypot.
ShotVelocity(dx, dy) ==
    LET h10 == ISqrt((dx * dx + dy * dy) * 100)
    IN  [vx |-> -RDiv(dx * Trunc(Power(dx, dy), 10) * 10, h10) * 10,
         vy |-> -RDiv(dy * Trunc(Power(dx, dy), 10) * 10, h10) * 10]

\* MOUSEBUTTONUP and e.button == 1 and aiming and not sunk and not course_complete
\* (The same without `not sunk`.)
MouseUpGuardNoSunk == aiming /\ ~course_complete
MouseUpGuard == aiming /\ ~sunk /\ ~course_complete

MouseUp ==
    /\ pc = "events"
    /\ MouseUpGuard
    /\ \E d \in Drags :
         /\ mouse_up' = <<drag_start[1] + d[1], drag_start[2] + d[2]>>
         /\ IF ShotApplied(d[1], d[2])
            THEN /\ strokes < MaxStrokes
                 /\ ball' = [ball EXCEPT !.vx = ShotVelocity(d[1], d[2]).vx,
                                         !.vy = ShotVelocity(d[1], d[2]).vy]
                 /\ strokes' = strokes + 1
            ELSE UNCHANGED <<ball, strokes>>
    /\ aiming' = FALSE
    /\ UNCHANGED <<level_index, HOLE_POS, sunk, drag_start, course_complete, chomp_timer,
                   ticks, dt, pc, oracle, fuel, frames, probe>>

-----------------------------------------------------------------------------
(* The physics block of a loop iteration (interactive path) *)

\* The guard without course_complete: if not sunk.
PhysicsGuardSunkOnly == ~sunk

\* if not sunk and not course_complete
PhysicsGuard == ~sunk /\ ~course_complete

\* The first gator of the list that bites, as the for loop with break finds it;
\* 0 when none does.
RECURSIVE FirstBite(_, _, _, _)
FirstBite(b, gators, t, k) ==
    IF k > Len(gators) THEN 0
    ELSE IF GatorBites(b, gators[k], t) THEN k
    ELSE FirstBite(b, gators, t, k + 1)

\* if ball.on_ground and ball.speed() < STOP_SPEED: ball.vx = ball.vy = 0
SnapToRest(b) ==
    IF b.on_ground /\ SpeedBelow(b, STOP_SPEED) THEN [b EXCEPT !.vx = 0, !.vy = 0] ELSE b

\* The physics block on ball b0 with frame time dtn / dtd seconds at time t:
\* integrate, platforms, gator hazard (reset_ball_only(penalize=True)), friction,
\* snap to rest, walls, fall (reset_ball_only()), sink check.  The result says
\* what became of the ball and which resets ran.
FramePhysics(b0, dtn, dtd, t, platforms, gators, start, hole_pos) ==
    LET b1 == ResolvePlatforms(integrate(b0, dtn, dtd), platforms, 1)
        chomped == FirstBite(b1, gators, t, 1) # 0
        b2 == IF chomped THEN Ball(start[1], start[2]) ELSE b1
        b3 == ClampWalls(SnapToRest(Friction(b2, dtn, dtd)))
        fell == FellOut(b3)
        b4 == IF fell THEN Ball(start[1], start[2]) ELSE b3
        sinks == Captures(b4, hole_pos, HOLE_R)
    IN  [ball |-> IF sinks THEN AtHole(b4, hole_pos) ELSE b4,
         chomped |-> chomped, fell |-> fell, sinks |-> sinks]

\* Milliseconds clock.tick(FPS) returns at 60 frames per second.
FrameDts == {17}

\* The rest of a loop iteration after its events (the physics block), then the
\* top of the next iteration: dt = clock.tick(FPS), tsec, the chomp timer, and
\* ball.on_ground = False.
Physics ==
    /\ pc = "events"
    /\ frames < MaxFrames
    /\ LET r == IF PhysicsGuard
                THEN FramePhysics(ball, dt, 1000, ticks, PLATFORMS, GATORS, START_POS, HOLE_POS)
                ELSE [ball |-> ball, chomped |-> FALSE, fell |-> FALSE, sinks |-> FALSE]
       IN  /\ ball' = [r.ball EXCEPT !.on_ground = FALSE]
           /\ sunk' = IF r.sinks THEN TRUE ELSE IF r.chomped \/ r.fell THEN FALSE ELSE sunk
           /\ aiming' = IF r.chomped \/ r.fell THEN FALSE ELSE aiming
           /\ strokes' = IF r.chomped THEN strokes + 1 ELSE strokes
           /\ \E d \in FrameDts :
                /\ dt' = d
                /\ ticks' = ticks + d
                /\ LET c == IF r.chomped THEN 1200 ELSE chomp_timer
                   IN  chomp_timer' = IF c > 0 THEN c - d ELSE c
    /\ frames' = frames + 1
    /\ UNCHANGED <<level_index, HOLE_POS, drag_start, course_complete, pc, oracle, fuel,
                   mouse_up, probe>>

-----------------------------------------------------------------------------
(* The program from the top of a loop iteration *)

\* A ball in play: position in pixels, velocity in pixels per second.
Moving(x, y, vx, vy) == [Ball(x, y) EXCEPT !.vx = vx * PX, !.vy = vy * PX]

\* What main() binds before its loop, and the top of the first iteration.
InitStart ==
    /\ level_index = 0
    /\ ball = StartBall
    /\ strokes = 0
    /\ ticks = 0

\* States of play the exploration also starts from, one stroke into a level:
\* a ball in the air, rolling at the hole, dropping slowly onto the hole, at
\* rest on the ground, at a wall,
\* in a gator's mouth, or falling through the gap.
MidPlay ==
    { [level |-> 0, ball |-> Moving(500, 300, 300, 0), ticks |-> 300],
      [level |-> 0, ball |-> Moving(808, 468, 100, 0), ticks |-> 300],
      [level |-> 0, ball |-> Moving(820, 465, 20, 30), ticks |-> 300],
      [level |-> 0, ball |-> Moving(200, 528, 0, 0), ticks |-> 300],
      [level |-> 0, ball |-> Moving(14, 500, -300, 0), ticks |-> 300],
      [level |-> 1, ball |-> Moving(460, 484, 50, 200), ticks |-> 300],
      [level |-> 1, ball |-> Moving(460, 497, 50, 200), ticks |-> 0],
      [level |-> 1, ball |-> Moving(400, 795, 0, 600), ticks |-> 300],
      [level |-> 2, ball |-> Moving(280, 462, 0, 200), ticks |-> 300],
      [level |-> 2, ball |-> Moving(700, 528, 0, 0), ticks |-> 300],
      [level |-> 4, ball |-> Moving(400, 400, -200, -500), ticks |-> 300] }

InitMidPlay ==
    \E s \in MidPlay :
        /\ level_index = s.level
        /\ ball = s.ball
        /\ strokes = 1
        /\ ticks = s.ticks

\* The rest of main's state before its loop, at the top of the first iteration.
InitRest ==
    /\ HOLE_POS = LoadedHole(level_index)
    /\ sunk = FALSE
    /\ aiming = FALSE
    /\ drag_start = <<0, 0>>
    /\ course_complete = FALSE
    /\ chomp_timer = 0
    /\ dt \in FrameDts
    /\ pc = "events"
    /\ oracle = OracleIdle
    /\ frames = 0
    /\ mouse_up = <<0, 0>>

Init ==
    /\ (InitStart \/ InitMidPlay)
    /\ InitRest
    /\ fuel = GameFuel
    /\ probe = << >>

Next ==
    \/ KeyR
    \/ KeyF
    \/ OracleStep
    \/ OracleReturn
    \/ KeyN
    \/ KeyP
    \/ KeyReturn
    \/ MouseDown
    \/ MouseUp
    \/ Physics

Spec == Init /\ [][Next]_vars

-----------------------------------------------------------------------------
(* The F key on its own: one whole call of simulate_to_rest per input *)

\* The start of every level, as load_level leaves it.
InitAnyStart ==
    /\ level_index \in 0..(Len(LEVELS) - 1)
    /\ ball = StartBall
    /\ strokes = 0
    /\ ticks = 0

InitOracle ==
    /\ (InitAnyStart \/ InitMidPlay)
    /\ InitRest
    /\ fuel = OracleFuel
    /\ probe = << >>

NextOracle ==
    \/ KeyF
    \/ OracleStep
    \/ OracleReturn

SpecOracle == InitOracle /\ [][NextOracle]_vars

-----------------------------------------------------------------------------
(* simulate_to_rest: how a call ends *)

\* Position and velocity agree to within a pixel and a pixel per second.
NearPose(a, b) ==
    /\ Abs(a.x - b.x) <= PX /\ Abs(a.y - b.y) <= PX
    /\ Abs(a.vx - b.vx) <= PX /\ Abs(a.vy - b.vy) <= PX

\* A call of simulate_to_rest has left its loop (by break, return, raise or the
\* end of range) and has not yet handed its result to the F handler.
OracleEnded == pc = "oracle" /\ oracle.status \notin {"idle", "running"}

\* C1: when simulate_to_rest ends because the ball overlaps a maximum mouth
\* rectangle or has fallen below H + 200, the call returns normally (the start
\* ball, flag False): it is a "discarded" outcome, never an exception, and
\* main() is never left by an error.
C1_DiscardReturnsNormally ==
    /\ pc # "crashed"
    /\ (OracleEnded /\ (OracleHazard(oracle.b, GATORS) \/ FellOut(oracle.b)))
          => oracle.status = "discarded"

\* C2: the loop of simulate_to_rest never starts an iteration beyond MAX_STEPS,
\* every iteration that continues advances the count by one (so the call ends),
\* and a call that exhausts the cap returns to the handler with the last
\* computed ball and capture flag False (sunk keeps its value), without error.
C2_OracleTerminatesAtCap ==
    /\ [](pc = "oracle" => oracle.i <= MAX_STEPS)
    /\ [](oracle.status = "exhausted" => oracle.i = MAX_STEPS)
    /\ [][(pc = "oracle" /\ pc' = "oracle" /\ oracle'.status = "running")
             => oracle'.i = oracle.i + 1]_vars
    /\ [][(pc = "oracle" /\ oracle.status = "exhausted")
             => (pc' = "events" /\ ball' = oracle.b /\ sunk' = sunk)]_vars

\* A call ran all MAX_STEPS iterations without capture, settle or discard.
C2_CapExhausted ==
    /\ OracleEnded
    /\ oracle.status = "exhausted"
    /\ oracle.i = MAX_STEPS
    /\ oracle.c < settled_frames_needed

\* C3: while simulate_to_rest runs and when it ends, the caller's ball has the
\* fields it had when the call was made, and the ball the call works on (and
\* returns) is another object than the caller's.
C3_CallerBallUntouched ==
    pc = "oracle" => (ball = oracle.arg /\ oracle.obj = "priv")

\* A call ended with a result that differs from the ball passed in, and the
\* caller's ball is still as passed.
C3_ResultDiffersFromArgument ==
    /\ OracleEnded
    /\ oracle.status \in {"exhausted", "captured"}
    /\ oracle.b # oracle.arg
    /\ ball = oracle.arg

\* C4: on a level without gators, from any state the oracle's loop reaches, one
\* interactive physics step with the oracle's step size and one pass of the
\* oracle's loop body give the same outcome (captured, discarded, or still in
\* play) and, while in play or captured, the same ball to within a pixel and a
\* pixel per second.
C4_PathsAgree ==
    (pc = "oracle" /\ oracle.status = "running" /\ LoopHasNext(oracle.i) /\ GATORS = << >>) =>
        LET o == OracleBody(OracleBall, oracle.c, PLATFORMS, HOLE_POS, HOLE_R, GATORS, STOP_SPEED)
            f == FramePhysics([OracleBall EXCEPT !.on_ground = FALSE], 1, SIM_RATE, ticks,
                              PLATFORMS, GATORS, START_POS, HOLE_POS)
        IN  /\ (o.status = "captured") <=> f.sinks
            /\ (o.status \in {"discarded", "NameError"}) <=> (f.chomped \/ f.fell)
            /\ (o.status \in {"running", "captured", "settled"}) => NearPose(o.b, f.ball)

\* The ball rests on a platform: zero velocity, centre exactly BALL_R above the
\* platform's top within its span, outside every maximum mouth rectangle and
\* more than a hole radius from the hole.
RestsOnGround(b) ==
    /\ b.vx = 0 /\ b.vy = 0
    /\ \E k \in 1..Len(PLATFORMS) :
          /\ b.y = (PLATFORMS[k][2] - BALL_R) * PX
          /\ PLATFORMS[k][1] * PX <= b.x
          /\ b.x <= (PLATFORMS[k][1] + PLATFORMS[k][3]) * PX
    /\ ~OracleHazard(b, GATORS)
    /\ Abs(b.x - HOLE_POS[1] * PX) > HOLE_R * PX

\* C8: a call of simulate_to_rest on a ball at rest on the ground ends through
\* the settled rule, before the cap, with a zero-velocity ball at the resting
\* position it was given.
C8_RestingBallSettles ==
    (OracleEnded /\ RestsOnGround(oracle.arg)) =>
        /\ oracle.status = "settled"
        /\ oracle.i < MAX_STEPS
        /\ oracle.b.vx = 0 /\ oracle.b.vy = 0
        /\ oracle.b.x = oracle.arg.x /\ oracle.b.y = oracle.arg.y

-----------------------------------------------------------------------------
(* The game loop: capture, aim release, gator hazard *)

BallInHole ==
    /\ ball.x = HOLE_POS[1] * PX /\ ball.y = HOLE_POS[2] * PX
    /\ ball.vx = 0 /\ ball.vy = 0

SamePose ==
    /\ ball'.x = ball.x /\ ball'.y = ball.y
    /\ ball'.vx = ball.vx /\ ball'.vy = ball.vy

\* R, N, P, or Enter on a sunk ball.
ExternalReset == KeyR \/ KeyN \/ KeyP \/ KeyReturn

\* C5: a sunk ball lies at the hole's centre with zero velocity, and from a state
\* with sunk true every step other than R, N, P and Enter (a frame, a mouse press
\* or release, F and the steps of its simulate_to_rest call) leaves sunk true and
\* the ball's position and velocity as they are.
C5_CaptureIsTerminal ==
    /\ [](sunk => BallInHole)
    /\ [][(sunk /\ ~ExternalReset) => (sunk' /\ SamePose)]_vars

\* F was pressed on a sunk ball and its simulate_to_rest call came back captured.
C5_FastForwardOnSunkBall ==
    /\ sunk
    /\ OracleEnded
    /\ oracle.status = "captured"

\* The squared distance in pixels between the press point and the release point.
DragSq ==
    (mouse_up[1] - drag_start[1]) * (mouse_up[1] - drag_start[1])
    + (mouse_up[2] - drag_start[2]) * (mouse_up[2] - drag_start[2])

\* C6: a release whose distance from the press point is at most AIM_MIN_DRAG
\* pixels leaves the ball and the stroke counter unchanged and ends aiming.
C6_ShortDragIsNoOp ==
    [][(MouseUp /\ DragSq' <= AIM_MIN_DRAG * AIM_MIN_DRAG)
          => (ball' = ball /\ strokes' = strokes /\ ~aiming')]_vars

\* The interactive hazard condition on the ball as it is after integrate and
\* the platform loop of this frame: some gator is open above 0.6 at the frame's
\* time and its current mouth rectangle overlaps the ball's circle.
OpenMouthOverlaps ==
    LET b1 == ResolvePlatforms(integrate(ball, dt, 1000), PLATFORMS, 1)
    IN  \E k \in 1..Len(GATORS) :
            /\ open_amount(GATORS[k], ticks) > 600
            /\ circle_rect_overlap(b1.x, b1.y, BALL_R, mouth_rect(GATORS[k], ticks))

\* C7: in a frame whose physics block runs, the hazard fires exactly when some
\* gator is open above 0.6 and its current mouth overlaps the ball.  When it
\* fires the frame ends with a zero-velocity ball at the start pose, one more
\* stroke, a fresh chomp timer and sunk and aiming cleared; otherwise the
\* stroke counter is unchanged and the chomp timer does not restart.
C7_HazardIffOpenAndOverlap ==
    [][(frames' = frames + 1 /\ PhysicsGuard) =>
          IF OpenMouthOverlaps
          THEN /\ strokes' = strokes + 1
               /\ ball' = StartBall
               /\ chomp_timer' = 1200 - dt'
               /\ ~sunk' /\ ~aiming'
          ELSE /\ strokes' = strokes
               /\ chomp_timer' <= chomp_timer]_vars

\* A gator has just eaten the ball: the chomp timer runs and the ball is back at
\* the start with a penalty stroke on top of the stroke played.
C7_Chomped ==
    /\ chomp_timer > 0
    /\ ball = StartBall
    /\ strokes = 2
    /\ GATORS # << >>

-----------------------------------------------------------------------------
(* load_level and surface_y_at_x on their own *)

\* Rectangles the platform lists are drawn from, the longest list drawn, and the
\* anchors: inside two spans, on a left and on a right edge, under one span only,
\* and beyond every span.
SurfaceRects == { <<0, 540, 1000, 60>>, <<760, 480, 120, 20>>, <<260, 420, 160, 20>>,
                  <<900, 300, 50, 20>> }
MaxRects == 3
Anchors == {820, 260, 420, 500, 1200}
RectLists == UNION { [1..n -> SurfaceRects] : n \in 1..MaxRects }

InitSurface ==
    /\ InitStart
    /\ InitRest
    /\ fuel = 0
    /\ \E p \in RectLists, x \in Anchors : probe = [platforms |-> p, x |-> x, done |-> FALSE, y |-> 0]

\* hole_surface_y = surface_y_at_x(PLATFORMS, hx) on the platforms and anchor drawn.
SurfaceProbe ==
    /\ ~probe.done
    /\ probe' = [probe EXCEPT !.done = TRUE, !.y = surface_y_at_x(probe.platforms, probe.x)]
    /\ UNCHANGED <<level_index, HOLE_POS, ball, strokes, sunk, aiming, drag_start,
                   course_complete, chomp_timer, ticks, dt, pc, oracle, fuel, frames, mouse_up>>

NextSurface ==
    \/ SurfaceProbe
    \/ KeyN
    \/ KeyP

SpecSurface == InitSurface /\ [][NextSurface]_vars

\* The rectangles of the list whose span [x, x + w] contains the anchor.
Spanning(platforms, x) ==
    {k \in 1..Len(platforms) : platforms[k][1] <= x /\ x <= platforms[k][1] + platforms[k][3]}

\* y is the least top among the rectangles spanning x, or among all rectangles
\* when none spans x.
IsSurfaceY(platforms, x, y) ==
    LET pool == IF Spanning(platforms, x) # {} THEN Spanning(platforms, x)
                ELSE 1..Len(platforms)
    IN  /\ \E k \in pool : platforms[k][2] = y
        /\ \A k \in pool : y <= platforms[k][2]

\* C9: the hole of the loaded level is <<hole_x, y>> with y the least top among
\* the level's rectangles spanning hole_x (480 on the first level), and on any
\* non-empty list of rectangles surface_y_at_x gives the least top among those
\* spanning the anchor, or the least top of the whole list when none spans it.
C9_HoleOnTopmostSurface ==
    /\ HOLE_POS[1] = LEVELS[level_index + 1].hole_x
    /\ IsSurfaceY(PLATFORMS, HOLE_POS[1], HOLE_POS[2])
    /\ level_index = 0 => HOLE_POS = <<820, 480>>
    /\ probe.done => IsSurfaceY(probe.platforms, probe.x, probe.y)
    /\ (probe.done /\ probe.x = 820 /\ probe.platforms = << <<0, 540, 1000, 60>>, <<760, 480, 120, 20>> >>)
          => probe.y = 480

\* surface_y_at_x fell back to the whole list: no rectangle spans the anchor,
\* and the answer is the top of a rectangle that is not the first of the list.
C9_FallbackTaken ==
    /\ probe.done
    /\ Spanning(probe.platforms, probe.x) = {}
    /\ Len(probe.platforms) = 3
    /\ probe.y < probe.platforms[1][2]
    /\ level_index = 2

-----------------------------------------------------------------------------
(* The two hazard tests on their own *)

\* Every gator of the course, the times probed (every 100 milliseconds up to
\* MaxTimeSteps steps, more than the longest period), and where the ball's
\* centre is put relative to the gator's top-left corner (pixels).
AllGators == UNION { {LEVELS[l].gators[k] : k \in 1..Len(LEVELS[l].gators)} : l \in 1..Len(LEVELS) }
MaxTimeSteps == 23
ProbeTimes == { 100 * k : k \in 0..MaxTimeSteps }
ProbeOffsets == { <<dx, dy>> : dx \in {-10, 0, 60, 100}, dy \in {-40, -36, -32, -24, -12, 0, 12} }

InitMouth ==
    /\ InitStart
    /\ InitRest
    /\ fuel = 0
    /\ \E g \in AllGators, t \in ProbeTimes, off \in ProbeOffsets :
          probe = [g |-> g, t |-> t, b |-> Ball(g.x + off[1], g.y + off[2]), done |-> FALSE,
                   mouth |-> Rect(0, 0, 0, 0), hazard |-> Rect(0, 0, 0, 0),
                   bites |-> FALSE, predicted |-> FALSE]

\* Both hazard tests on the gator, time and ball drawn: the interactive one
\* (lines 439-441) and the oracle's (lines 263-265, 279-280).
HazardProbe ==
    /\ ~probe.done
    /\ probe' = [probe EXCEPT !.done = TRUE,
                              !.mouth = mouth_rect(probe.g, probe.t),
                              !.hazard = max_mouth(probe.g),
                              !.bites = FrameHazard(probe.b, <<probe.g>>, probe.t),
                              !.predicted = OracleHazard(probe.b, <<probe.g>>)]
    /\ UNCHANGED <<level_index, HOLE_POS, ball, strokes, sunk, aiming, drag_start,
                   course_complete, chomp_timer, ticks, dt, pc, oracle, fuel, frames, mouse_up>>

NextMouth == HazardProbe

SpecMouth == InitMouth /\ [][NextMouth]_vars

\* Rectangle r lies within rectangle o.
RectWithin(r, o) ==
    /\ o.left <= r.left /\ r.right <= o.right
    /\ o.top <= r.top /\ r.bottom <= o.bottom

\* C10: for every gator and time, the current mouth rectangle lies within the
\* oracle's maximum mouth rectangle, and wherever the interactive hazard test
\* fires the oracle's hazard test fires too.
C10_OracleHazardCoversMouth ==
    probe.done =>
        /\ RectWithin(probe.mouth, probe.hazard)
        /\ probe.bites => probe.predicted

\* The interactive test fired on a mouth that is not fully open, and the oracle's
\* test fired with it.
C10_BiteInsideMaxMouth ==
    /\ probe.done
    /\ probe.bites
    /\ probe.predicted
    /\ probe.mouth # probe.hazard

-----------------------------------------------------------------------------
(* The end of the course *)

LastLevel == Len(LEVELS) - 1

=============================================================================
